---- MODULE Spec2Model ----
(***************************************************************************)
(* Join-date mapping webhook handler (src/join-date-mapping.js).           *)
(*                                                                         *)
(* Each invocation of exports.main is a process that runs the handler's    *)
(* code between its awaits as one atomic step:                             *)
(*   Main / SeqMain      lines 123-140  (secret check, client, getAll)     *)
(*   ConnectivityReturn  lines 140-174 + 69-80 + 28-42 (up to doSearch)    *)
(*   SearchReturn        lines 44-66 + 80-103 (up to basicApi.update)      *)
(*   UpdateReturn        lines 99-120 + 174-203                            *)
(* The CRM (HubSpot) is the shared variable store; its calls answer or     *)
(* fail nondeterministically.                                              *)
(***************************************************************************)
EXTENDS Integers, Sequences, FiniteSets, TLC

VARIABLES
    store,           \* CRM: contact id -> stored join_date ("" = not set)
    pc,              \* invocation -> position in main
    context,         \* invocation -> the context main was called with
    hubspotClient,   \* invocation -> TRUE once new hubspot.Client(...) ran
    calls,           \* invocation -> sequence of CRM API calls it issued
    joinDate,        \* invocation -> local joinDate of processJoinDateMapping
    contact,         \* invocation -> local contact of processJoinDateMapping
    responses,       \* invocation -> sequence of sendResponse arguments
    escaped,         \* invocation -> TRUE if an exception left main
    failed,          \* invocation -> the CRM call that failed on it ("" = none)
    probe            \* a timestamp, its calendar date, and formatJoinDate of it

vars == <<store, pc, context, hubspotClient, calls, joinDate, contact,
          responses, escaped, failed, probe>>

-----------------------------------------------------------------------------
(* Bounds and input sets *)

NumInvocations == 2

Invocations == 1..NumInvocations

ContactIds == {"101", "102"}

EmailOf(id) == IF id = "101" THEN "a@example.com" ELSE "b@example.com"

InitialJoinDates == {"", "2025-07-19"}

Secrets == {"pat-token", ""}

EventTypes == {"checkout.session.completed", "invoice.paid"}

EventEmails == {"a@example.com", "b@example.com", "nobody@example.com", ""}

\* event.created as delivered in the JSON body: a number of seconds, or absent
Num(n) == [tag |-> "number", n |-> n]

Undefined == [tag |-> "undefined", n |-> 0]

EventCreateds == {Num(1752979200), Num(1753056000), Undefined}

Context(secret, type, created, hasCustomerDetails, email) ==
    [secrets |-> [joinDateKey |-> secret],
     body |-> [type |-> type, id |-> "evt_1", created |-> created,
               hasCustomerDetails |-> hasCustomerDetails, email |-> email]]

\* The contexts main is called with.  A field main never reads on the path
\* the other fields select takes one value only: the body without a secret,
\* created of an event that is not processed, and which non-empty email an
\* event carries that is ignored or whose date cannot be formatted.
Contexts ==
    {Context("", "checkout.session.completed", Num(1752979200), TRUE, "a@example.com")}
    \cup {Context("pat-token", t, Num(1752979200), FALSE, "") : t \in EventTypes}
    \cup {Context("pat-token", t, Num(1752979200), TRUE, "") : t \in EventTypes}
    \cup {Context("pat-token", "invoice.paid", Num(1752979200), TRUE, "a@example.com")}
    \cup {Context("pat-token", "checkout.session.completed", Undefined, TRUE, "a@example.com")}
    \cup {Context("pat-token", "checkout.session.completed", c, TRUE, e) :
              c \in EventCreateds \ {Undefined}, e \in EventEmails \ {""}}

-----------------------------------------------------------------------------
(* formatJoinDate: new Date(ts * 1000).toISOString().split('T')[0]          *)
(* ECMAScript: Day(t) = floor(t / msPerDay); for an integer number of       *)
(* seconds that is floor(ts / 86400).  Year, month and day of the month     *)
(* follow YearFromTime / MonthFromTime / DateFromTime.                      *)

\* the day is taken in a zone five hours behind UTC
Day_FiveHoursBehind(ts) == (ts - 18000) \div 86400

Day(ts) == ts \div 86400

DaysInYear(y) ==
    IF y % 4 # 0 THEN 365
    ELSE IF y % 100 # 0 THEN 366
    ELSE IF y % 400 # 0 THEN 365
    ELSE 366

DayFromYear(y) ==
    365 * (y - 1970) + ((y - 1969) \div 4) - ((y - 1901) \div 100)
        + ((y - 1601) \div 400)

YearFromDay(d) ==
    LET lo == 1970 + (IF d >= 0 THEN d \div 366 ELSE d \div 365) - 1
        hi == 1970 + (IF d >= 0 THEN d \div 365 ELSE d \div 366) + 1
    IN  CHOOSE y \in lo..hi : DayFromYear(y) <= d /\ d < DayFromYear(y + 1)

InLeapYear(y) == IF DaysInYear(y) = 366 THEN 1 ELSE 0

\* first day-within-year of month m (1..12), and of the month after December
MonthStart(m, leap) ==
    CASE m = 1 -> 0
      [] m = 2 -> 31
      [] m = 3 -> 59 + leap
      [] m = 4 -> 90 + leap
      [] m = 5 -> 120 + leap
      [] m = 6 -> 151 + leap
      [] m = 7 -> 181 + leap
      [] m = 8 -> 212 + leap
      [] m = 9 -> 243 + leap
      [] m = 10 -> 273 + leap
      [] m = 11 -> 304 + leap
      [] m = 12 -> 334 + leap
      [] OTHER -> 365 + leap

MonthFromDay(d) ==
    LET y == YearFromDay(d)
        dayWithinYear == d - DayFromYear(y)
        leap == InLeapYear(y)
    IN  CHOOSE m \in 1..12 :
            MonthStart(m, leap) <= dayWithinYear
                /\ dayWithinYear < MonthStart(m + 1, leap)

DateFromDay(d) ==
    LET y == YearFromDay(d)
    IN  d - DayFromYear(y) - MonthStart(MonthFromDay(d), InLeapYear(y)) + 1

Pad2(n) == IF n < 10 THEN "0" \o ToString(n) ELSE ToString(n)

Pad4(n) ==
    IF n < 10 THEN "000" \o ToString(n)
    ELSE IF n < 100 THEN "00" \o ToString(n)
    ELSE IF n < 1000 THEN "0" \o ToString(n)
    ELSE ToString(n)

\* the part of toISOString() before the 'T', for years 0..9999
ISODate(d) ==
    Pad4(YearFromDay(d)) \o "-" \o Pad2(MonthFromDay(d)) \o "-" \o Pad2(DateFromDay(d))

Returned(v) == [ok |-> TRUE, value |-> v, message |-> ""]

Thrown(m) == [ok |-> FALSE, value |-> "", message |-> m]

\* an invalid Date is formatted instead of rejected
formatJoinDate_NoThrow(unixTimestamp) ==
    IF unixTimestamp.tag = "number"
    THEN Returned(ISODate(Day(unixTimestamp.n)))
    ELSE Returned("NaN-NaN-NaN")

\* undefined * 1000 is NaN, and toISOString() of an invalid Date throws
formatJoinDate(unixTimestamp) ==
    IF unixTimestamp.tag = "number"
    THEN Returned(ISODate(Day(unixTimestamp.n)))
    ELSE Thrown("Date formatting failed: Invalid time value")

-----------------------------------------------------------------------------
(* Values of the handler *)

\* JavaScript truthiness of a string-or-undefined value: undefined, null
\* and '' are all falsy and are modelled by ""
Truthy(s) == s # ""

NoData ==
    [contactId |-> "", joinDate |-> "", contactEmail |-> "",
     existingJoinDate |-> "", eventId |-> ""]

\* lines 196-202: the response of main's catch block
ErrorResponse(message) ==
    [statusCode |-> 500,
     body |-> [status |-> "error", action |-> "", message |-> message,
               data |-> NoData]]

\* lines 162-168
IgnoredResponse(type) ==
    [statusCode |-> 200,
     body |-> [status |-> "ignored", action |-> "",
               message |-> "Event type " \o type \o " not processed",
               data |-> NoData]]

\* lines 177-191; result is what processJoinDateMapping returned
SuccessResponse(result, eventId) ==
    [statusCode |-> 200,
     body |-> [status |-> "success", action |-> result.action,
               message |-> result.message,
               data |-> [contactId |-> result.contactId,
                         joinDate |-> result.joinDate,
                         contactEmail |-> result.contactEmail,
                         existingJoinDate |-> result.existingJoinDate,
                         eventId |-> eventId]]]

\* lines 89-95
SkippedResult(c) ==
    [success |-> TRUE, action |-> "skipped",
     message |-> "Join date already exists",
     contactId |-> c.id, joinDate |-> "", contactEmail |-> "",
     existingJoinDate |-> c.properties.join_date]

\* the result reports the date the contact held before, not the one written
UpdatedResult_ExistingDate(c, jd, customerEmail) ==
    [success |-> TRUE, action |-> "updated",
     message |-> "Join date successfully set",
     contactId |-> c.id, joinDate |-> c.properties.join_date,
     contactEmail |-> customerEmail, existingJoinDate |-> ""]

\* lines 107-114
UpdatedResult(c, jd, customerEmail) ==
    [success |-> TRUE, action |-> "updated",
     message |-> "Join date successfully set",
     contactId |-> c.id, joinDate |-> jd, contactEmail |-> customerEmail,
     existingJoinDate |-> ""]

\* what main does at its end: the responses it sends, and whether an
\* exception leaves main
Outcome(sent, esc) == [sent |-> sent, escaped |-> esc]

\* the catch block rethrows instead of answering
mainCatch_Rethrow(message) == Outcome(<<>>, TRUE)

\* lines 193-203: every error thrown inside the try block is answered with 500
mainCatch(message) == Outcome(<<ErrorResponse(message)>>, FALSE)

\* the ignored answer is sent without returning, and the handler answers again
mainIgnored_NoReturn(type) == Outcome(<<IgnoredResponse(type), IgnoredResponse(type)>>, FALSE)

\* lines 161-169
mainIgnored(type) == Outcome(<<IgnoredResponse(type)>>, FALSE)

\* lines 174-191
mainSuccess(result, eventId) == Outcome(<<SuccessResponse(result, eventId)>>, FALSE)

\* a failed connectivity test is logged and the handler goes on
ConnectivityConfirmed_Swallowed(ok) == TRUE

\* lines 138-145: the test call returned; its failure is rethrown
ConnectivityConfirmed(ok) == ok

\* the secret check is missing
SecretPresent_Always(ctx) == TRUE

\* line 130
SecretPresent(ctx) == Truthy(ctx.secrets.joinDateKey)

\* line 148: context.body.data.object.customer_details.email
customerEmailOf(ctx) ==
    IF ctx.body.hasCustomerDetails
    THEN Returned(ctx.body.email)
    ELSE Thrown("Cannot read properties of undefined (reading 'email')")

\* the email check is missing
EmailMissing_Never(customerEmail) == FALSE

\* lines 152 and 71: !customerEmail
EmailMissing(customerEmail) == ~Truthy(customerEmail)

\* the event type is not checked
IsCheckoutCompleted_Always(stripeEvent) == TRUE

\* line 161
IsCheckoutCompleted(stripeEvent) == stripeEvent.type = "checkout.session.completed"

\* the write-once check is missing: every resolved contact is updated
JoinDateAlreadySet_Never(c) == FALSE

\* the write-once check inverted
JoinDateAlreadySet_Inverted(c) == ~Truthy(c.properties.join_date)

\* line 87: the write-once check
JoinDateAlreadySet(c) == Truthy(c.properties.join_date)

-----------------------------------------------------------------------------
(* The CRM *)

\* the contacts search of lines 32-42: filter email EQ value, properties
\* ['join_date'], limit 1
MatchingIds(email) == {id \in ContactIds : EmailOf(id) = email}

\* the email filter is not applied: the first contact of the CRM is returned
doSearch_AnyContact(crm, email) ==
    <<[id |-> "101", properties |-> [join_date |-> crm["101"]]]>>

doSearch(crm, email) ==
    IF MatchingIds(email) = {} THEN <<>>
    ELSE LET id == CHOOSE x \in MatchingIds(email) : TRUE
         IN  <<[id |-> id, properties |-> [join_date |-> crm[id]]]>>

\* the two response shapes the client can hand back (lines 49-57)
SearchShapes == {"flat", "wrapped"}

SearchResponse(shape, results) ==
    [hasResults |-> shape = "flat",
     results |-> IF shape = "flat" THEN results ELSE <<>>,
     hasBody |-> shape = "wrapped",
     bodyResults |-> IF shape = "wrapped" THEN results ELSE <<>>]

\* only the list returned directly is read
ResultsOf_DirectOnly(searchResult) ==
    IF searchResult.hasResults THEN searchResult.results ELSE <<>>

\* line 57: searchResult?.results || searchResult?.body?.results || []
ResultsOf(searchResult) ==
    IF searchResult.hasResults THEN searchResult.results
    ELSE IF searchResult.hasBody THEN searchResult.bodyResults
    ELSE <<>>

\* line 60: <<c>> is the contact c, <<>> is null
FirstOrNull(results) == IF Len(results) > 0 THEN <<results[1]>> ELSE <<>>

\* the CRM keeps a join_date it already holds
basicApiUpdate_KeepExisting(crm, id, jd) ==
    IF crm[id] # "" THEN crm ELSE [crm EXCEPT ![id] = jd]

\* the update is acknowledged but nothing is stored
basicApiUpdate_NothingStored(crm, id, jd) == crm

\* lines 99-103: basicApi.update(contact.id, {properties: {join_date}})
basicApiUpdate(crm, id, jd) == [crm EXCEPT ![id] = jd]

\* error.message of a failed CRM call
ApiFailure == "socket hang up"

-----------------------------------------------------------------------------
(* State *)

NoContext ==
    [secrets |-> [joinDateKey |-> ""],
     body |-> [type |-> "", id |-> "", created |-> Undefined,
               hasCustomerDetails |-> FALSE, email |-> ""]]

\* formatJoinDate is not being probed
NoProbe == [ts |-> 0, year |-> 1970, month |-> 1, date |-> 1, days |-> 0, out |-> ""]

Init ==
    /\ probe = NoProbe
    /\ store \in [ContactIds -> InitialJoinDates]
    /\ pc = [i \in Invocations |-> "idle"]
    /\ context = [i \in Invocations |-> NoContext]
    /\ hubspotClient = [i \in Invocations |-> FALSE]
    /\ calls = [i \in Invocations |-> <<>>]
    /\ joinDate = [i \in Invocations |-> ""]
    /\ contact = [i \in Invocations |-> <<>>]
    /\ responses = [i \in Invocations |-> <<>>]
    /\ escaped = [i \in Invocations |-> FALSE]
    /\ failed = [i \in Invocations |-> ""]

\* main is over: its responses are sent (or its exception has escaped)
End(i, outcome) ==
    /\ pc' = [pc EXCEPT ![i] = "done"]
    /\ responses' = [responses EXCEPT ![i] = @ \o outcome.sent]
    /\ escaped' = [escaped EXCEPT ![i] = outcome.escaped]

\* the call is issued twice
Call_Repeated(i, api) == calls' = [calls EXCEPT ![i] = Append(Append(@, api), api)]

Call(i, api) == calls' = [calls EXCEPT ![i] = Append(@, api)]

\* the CRM's answer to the pending call of invocation i
Answer(i, ok, api) == failed' = [failed EXCEPT ![i] = IF ok THEN @ ELSE api]

-----------------------------------------------------------------------------
(* exports.main, lines 123-140: up to the connectivity test *)

MainStart(i, ctx) ==
    /\ pc[i] = "idle"
    /\ \A j \in Invocations : j < i => pc[j] # "idle"
    /\ context' = [context EXCEPT ![i] = ctx]
    /\ IF ~SecretPresent(ctx)
       THEN /\ End(i, mainCatch("Missing required secret: joinDateKey"))
            /\ UNCHANGED <<hubspotClient, calls>>
       ELSE /\ hubspotClient' = [hubspotClient EXCEPT ![i] = TRUE]
            /\ Call(i, "properties.getAll")
            /\ pc' = [pc EXCEPT ![i] = "awaitConnectivity"]
            /\ UNCHANGED <<responses, escaped>>
    /\ UNCHANGED <<store, joinDate, contact, failed, probe>>

\* invocations may overlap
Main(i) == \E ctx \in Contexts : MainStart(i, ctx)

\* invocations are delivered one after the other
SeqMain(i) ==
    /\ \A j \in Invocations : pc[j] \in {"idle", "done"}
    /\ \E ctx \in Contexts : MainStart(i, ctx)

(* lines 140-174, 69-80, 28-42: the connectivity test answers; the event is *)
(* read and the contact search is issued                                    *)
ConnectivityReturn(i, ok) ==
    /\ pc[i] = "awaitConnectivity"
    /\ Answer(i, ok, "properties.getAll")
    /\ LET ctx == context[i]
           customerEmail == customerEmailOf(ctx)
           stripeEvent == ctx.body
           jd == formatJoinDate(stripeEvent.created)
       IN  IF ~ConnectivityConfirmed(ok)
           THEN /\ End(i, mainCatch("HubSpot authentication failed: " \o ApiFailure))
                /\ UNCHANGED <<calls, joinDate>>
           ELSE IF ~customerEmail.ok
           THEN /\ End(i, mainCatch(customerEmail.message))
                /\ UNCHANGED <<calls, joinDate>>
           ELSE IF EmailMissing(customerEmail.value)
           THEN /\ End(i, mainCatch("No customer email found in webhook data"))
                /\ UNCHANGED <<calls, joinDate>>
           ELSE IF ~IsCheckoutCompleted(stripeEvent)
           THEN /\ End(i, mainIgnored(stripeEvent.type))
                /\ UNCHANGED <<calls, joinDate>>
           ELSE IF EmailMissing(customerEmail.value)
           THEN /\ End(i, mainCatch("No customer email found in checkout session"))
                /\ UNCHANGED <<calls, joinDate>>
           ELSE IF ~jd.ok
           THEN /\ End(i, mainCatch(jd.message))
                /\ UNCHANGED <<calls, joinDate>>
           ELSE /\ joinDate' = [joinDate EXCEPT ![i] = jd.value]
                /\ Call(i, "contacts.search")
                /\ pc' = [pc EXCEPT ![i] = "awaitSearch"]
                /\ UNCHANGED <<responses, escaped>>
    /\ UNCHANGED <<store, context, hubspotClient, contact, probe>>

(* lines 44-66, 80-103: the search answers; the contact is resolved and    *)
(* either skipped or its update is issued                                  *)
SearchReturn(i, ok, shape) ==
    /\ pc[i] = "awaitSearch"
    /\ Answer(i, ok, "contacts.search")
    /\ LET customerEmail == context[i].body.email
           searchResult == SearchResponse(shape, doSearch(store, customerEmail))
           found == FirstOrNull(ResultsOf(searchResult))
       IN  IF ~ok
           THEN /\ End(i, mainCatch("Contact search failed: " \o ApiFailure))
                /\ UNCHANGED <<calls, contact>>
           ELSE IF found = <<>>
           THEN /\ End(i, mainCatch("No contact found with email: " \o customerEmail))
                /\ UNCHANGED <<calls, contact>>
           ELSE IF JoinDateAlreadySet(found[1])
           THEN /\ End(i, mainSuccess(SkippedResult(found[1]), context[i].body.id))
                /\ contact' = [contact EXCEPT ![i] = found]
                /\ UNCHANGED calls
           ELSE /\ contact' = [contact EXCEPT ![i] = found]
                /\ Call(i, "contacts.update")
                /\ pc' = [pc EXCEPT ![i] = "awaitUpdate"]
                /\ UNCHANGED <<responses, escaped>>
    /\ UNCHANGED <<store, context, hubspotClient, joinDate, probe>>

(* lines 99-120, 174-203: the update answers; a failed update wrote nothing *)
UpdateReturn(i, ok) ==
    /\ pc[i] = "awaitUpdate"
    /\ Answer(i, ok, "contacts.update")
    /\ LET c == contact[i][1]
           written == basicApiUpdate(store, c.id, joinDate[i])
       IN  IF ~ok
           THEN /\ End(i, mainCatch(ApiFailure))
                /\ UNCHANGED store
           ELSE /\ store' = written
                /\ End(i, mainSuccess(UpdatedResult(c, joinDate[i], context[i].body.email),
                                      context[i].body.id))
    /\ UNCHANGED <<context, hubspotClient, calls, joinDate, contact, probe>>

Connectivity == \E i \in Invocations, ok \in BOOLEAN : ConnectivityReturn(i, ok)

Search == \E i \in Invocations, ok \in BOOLEAN, shape \in SearchShapes : SearchReturn(i, ok, shape)

Update == \E i \in Invocations, ok \in BOOLEAN : UpdateReturn(i, ok)

Arrive == \E i \in Invocations : Main(i)

SeqArrive == \E i \in Invocations : SeqMain(i)

Next == Arrive \/ Connectivity \/ Search \/ Update

SeqNext == SeqArrive \/ Connectivity \/ Search \/ Update

\* invocations may run concurrently
Spec == Init /\ [][Next]_vars

\* invocations run one after the other
SeqSpec == Init /\ [][SeqNext]_vars

\* lines 140, 42, 99: the awaited CRM call of invocation i settles
Settle(i) ==
    \/ \E ok \in BOOLEAN : ConnectivityReturn(i, ok)
    \/ \E ok \in BOOLEAN, shape \in SearchShapes : SearchReturn(i, ok, shape)
    \/ \E ok \in BOOLEAN : UpdateReturn(i, ok)

\* invocations may run concurrently, and every awaited CRM call returns or fails
LiveSpec == Spec /\ \A i \in Invocations : WF_vars(Settle(i))

-----------------------------------------------------------------------------
(* formatJoinDate on its own: a timestamp walks forward from an anchor day  *)
(* through 00:00:00, 02:40:00 and 23:59:59 of each day, its calendar date   *)
(* kept by counting days, and formatJoinDate (lines 15-25) is applied to it *)

MaxProbeDays == 8

\* 00:00:00Z of 2024-02-25, 2025-07-19, 2025-07-27 and 2025-12-28
ProbeAnchors ==
    {[ts |-> 1708819200, year |-> 2024, month |-> 2, date |-> 25, days |-> 0, out |-> ""],
     [ts |-> 1752883200, year |-> 2025, month |-> 7, date |-> 19, days |-> 0, out |-> ""],
     [ts |-> 1753574400, year |-> 2025, month |-> 7, date |-> 27, days |-> 0, out |-> ""],
     [ts |-> 1766880000, year |-> 2025, month |-> 12, date |-> 28, days |-> 0, out |-> ""]}

\* the Gregorian calendar, day by day
DaysInMonth(y, m) ==
    IF m = 2
    THEN (IF y % 4 = 0 /\ (y % 100 # 0 \/ y % 400 = 0) THEN 29 ELSE 28)
    ELSE IF m \in {4, 6, 9, 11} THEN 30 ELSE 31

NextCalendarDay(p) ==
    IF p.date < DaysInMonth(p.year, p.month)
    THEN [p EXCEPT !.date = @ + 1, !.days = @ + 1]
    ELSE IF p.month < 12
    THEN [p EXCEPT !.date = 1, !.month = @ + 1, !.days = @ + 1]
    ELSE [p EXCEPT !.date = 1, !.month = 1, !.year = @ + 1, !.days = @ + 1]

\* seconds from the time of day the probe is at to the next one it visits
ProbeStep(ts) ==
    IF ts % 86400 = 0 THEN 9600
    ELSE IF ts % 86400 = 9600 THEN 76799
    ELSE 1

HandlerIdle ==
    /\ store = [id \in ContactIds |-> ""]
    /\ pc = [i \in Invocations |-> "idle"]
    /\ context = [i \in Invocations |-> NoContext]
    /\ hubspotClient = [i \in Invocations |-> FALSE]
    /\ calls = [i \in Invocations |-> <<>>]
    /\ joinDate = [i \in Invocations |-> ""]
    /\ contact = [i \in Invocations |-> <<>>]
    /\ responses = [i \in Invocations |-> <<>>]
    /\ escaped = [i \in Invocations |-> FALSE]
    /\ failed = [i \in Invocations |-> ""]

DateInit == HandlerIdle /\ probe \in ProbeAnchors

\* the timestamp moves on by k seconds, less than or equal to a day
Advance(k) ==
    /\ probe.days < MaxProbeDays
    /\ LET moved == [probe EXCEPT !.ts = @ + k, !.out = ""]
       IN  probe' = IF (probe.ts % 86400) + k >= 86400
                    THEN NextCalendarDay(moved)
                    ELSE moved
    /\ UNCHANGED <<store, pc, context, hubspotClient, calls, joinDate, contact,
                   responses, escaped, failed>>

AdvanceWithinDay == Advance(ProbeStep(probe.ts))

AdvanceOneDay == Advance(86400)

\* line 77 on the probed timestamp
Format ==
    /\ probe.out = ""
    /\ probe' = [probe EXCEPT !.out = formatJoinDate(Num(probe.ts)).value]
    /\ UNCHANGED <<store, pc, context, hubspotClient, calls, joinDate, contact,
                   responses, escaped, failed>>

DateNext == AdvanceWithinDay \/ AdvanceOneDay \/ Format

DateSpec == DateInit /\ [][DateNext]_vars

-----------------------------------------------------------------------------
(* Vocabulary of the properties *)

Sentinel == "checkout.session.completed"

Done(i) == pc[i] = "done"

Started(i) == pc[i] # "idle"

\* number of calls of api in a call sequence
Count(seq, api) == Cardinality({k \in 1..Len(seq) : seq[k] = api})

\* the response of a finished invocation
Response(i) == responses[i][1]

Responded(i, statusCode, status, action) ==
    /\ Len(responses[i]) = 1
    /\ Response(i).statusCode = statusCode
    /\ Response(i).body.status = status
    /\ Response(i).body.action = action

\* the contact the CRM holds for the email of invocation i's event
ContactFor(i) == {id \in ContactIds : EmailOf(id) = context[i].body.email}

\* invocation i takes the step
Steps(i) == pc'[i] # pc[i]

\* invocation i carries a processable event: credential, email, sentinel
\* type and a numeric created
Processable(i) ==
    /\ context[i].secrets.joinDateKey # ""
    /\ context[i].body.hasCustomerDetails
    /\ context[i].body.email # ""
    /\ context[i].body.type = Sentinel
    /\ context[i].body.created.tag = "number"

-----------------------------------------------------------------------------
(* C1: write-once on a pre-existing value.  Whenever a search of an         *)
(* invocation answers successfully while the CRM holds a non-empty         *)
(* join_date for the contact of its email, that step ends the invocation   *)
(* with 200 / success / skipped, existingJoinDate is the stored value,     *)
(* contactId is the contact's id, no update call is issued, and the CRM    *)
(* store is the same after the step as before it.                          *)

C1_SkipsExistingJoinDate ==
    [][\A i \in Invocations : \A id \in ContactIds :
          (/\ pc[i] = "awaitSearch"
           /\ Steps(i)
           /\ failed'[i] = ""
           /\ EmailOf(id) = context[i].body.email
           /\ store[id] # "")
          => (/\ pc'[i] = "done"
              /\ Len(responses'[i]) = 1
              /\ responses'[i][1].statusCode = 200
              /\ responses'[i][1].body.status = "success"
              /\ responses'[i][1].body.action = "skipped"
              /\ responses'[i][1].body.data.existingJoinDate = store[id]
              /\ responses'[i][1].body.data.contactId = id
              /\ Count(calls'[i], "contacts.update") = 0
              /\ store' = store)]_vars

\* an invocation has been skipped on a contact that holds a join date
C1_Witness ==
    \E i \in Invocations : \E id \in ContactFor(i) :
        /\ Done(i)
        /\ Responded(i, 200, "success", "skipped")
        /\ store[id] = "2025-07-19"
        /\ Response(i).body.data.existingJoinDate = "2025-07-19"

-----------------------------------------------------------------------------
(* C2: global write-once invariant.  Under any number of invocations and    *)
(* any interleaving of their search and update steps, a stored join_date   *)
(* that is non-empty is never changed by a step of the handler.            *)

C2_NeverOverwritten ==
    [][\A id \in ContactIds : store[id] # "" => store'[id] = store[id]]_vars

-----------------------------------------------------------------------------
(* C3: idempotence.  With invocations delivered one after the other, if an  *)
(* invocation with a processable event found its contact with an empty     *)
(* join_date and no CRM call failed on it, it answered 'updated'; a later   *)
(* invocation with a processable event for the same contact, on which no    *)
(* CRM call failed, answers 'skipped', whatever its timestamp; and no step  *)
(* of the later invocation changes the contact's stored join_date, which    *)
(* stays the one stored when the first invocation ended.                    *)

C3_UpdatedThenSkipped ==
    [][\A i, j \in Invocations : \A id \in ContactIds :
          (/\ i < j
           /\ Done(i)
           /\ Processable(i)
           /\ failed[i] = ""
           /\ EmailOf(id) = context[i].body.email
           /\ contact[i] = <<[id |-> id, properties |-> [join_date |-> ""]]>>
           /\ Steps(j)
           /\ Processable(j)'
           /\ EmailOf(id) = context'[j].body.email)
          => (/\ Responded(i, 200, "success", "updated")
              /\ store'[id] = store[id]
              /\ store[id] = Response(i).body.data.joinDate
              /\ (Done(j)' /\ failed'[j] = ""
                    => /\ Len(responses'[j]) = 1
                       /\ responses'[j][1].statusCode = 200
                       /\ responses'[j][1].body.action = "skipped"
                       /\ responses'[j][1].body.data.existingJoinDate = store[id]))]_vars

\* 'updated' then 'skipped' on the same contact, the second event a day later
C3_Witness ==
    /\ Done(1) /\ Done(2)
    /\ context[1].body.email = "a@example.com"
    /\ context[2].body.email = "a@example.com"
    /\ context[1].body.created.n < context[2].body.created.n
    /\ Responded(1, 200, "success", "updated")
    /\ Responded(2, 200, "success", "skipped")
    /\ store["101"] = "2025-07-20"

-----------------------------------------------------------------------------
(* C4: at most one mutation per invocation.  An invocation issues at most   *)
(* one update call, and issues one only after its own search returned a    *)
(* contact whose join_date was empty; every step changes the stored        *)
(* join_date of at most one contact, and only as the answer to such a call. *)

C4_AtMostOneUpdate ==
    \A i \in Invocations :
        /\ Count(calls[i], "contacts.update") <= 1
        /\ Count(calls[i], "contacts.update") = 1
             => /\ calls[i] = <<"properties.getAll", "contacts.search", "contacts.update">>
                /\ Len(contact[i]) = 1
                /\ contact[i][1].properties.join_date = ""
                /\ contact[i][1].id \in ContactFor(i)
        /\ Done(i) /\ Len(responses[i]) = 1 /\ Response(i).body.action # "updated"
             => Count(calls[i], "contacts.update") = 0 \/ failed[i] = "contacts.update"

\* an invocation ended 'updated' having issued its one update call
C4_Witness ==
    \E i \in Invocations :
        /\ Done(i)
        /\ Responded(i, 200, "success", "updated")
        /\ Count(calls[i], "contacts.update") = 1

-----------------------------------------------------------------------------
(* C5: non-sentinel events are a no-op success.  Every finished invocation  *)
(* with a credential, on which no CRM call failed, and whose event type is  *)
(* not the sentinel, has answered 200 / ignored, whatever the rest of the   *)
(* event holds.                                                             *)

C5_NonSentinelIgnored ==
    \A i \in Invocations :
        (/\ Done(i)
         /\ context[i].secrets.joinDateKey # ""
         /\ failed[i] = ""
         /\ context[i].body.type # Sentinel)
        => Responded(i, 200, "ignored", "")

-----------------------------------------------------------------------------
(* C6: an invocation whose event type is not the sentinel makes no call to  *)
(* the CRM at all.                                                          *)

C6_IgnoredNoCrmCall ==
    \A i \in Invocations :
        Started(i) /\ context[i].body.type # Sentinel => calls[i] = <<>>

(* C6 as amended: an invocation whose event type is not the sentinel makes  *)
(* no search and no update call; the only CRM call it makes is the          *)
(* connectivity test, and it resolves no contact and derives no date.       *)

C6_IgnoredNoSearchNoUpdate ==
    \A i \in Invocations :
        Started(i) /\ context[i].body.type # Sentinel
        => /\ Count(calls[i], "contacts.search") = 0
           /\ Count(calls[i], "contacts.update") = 0
           /\ calls[i] \in {<<>>, <<"properties.getAll">>}
           /\ contact[i] = <<>>
           /\ joinDate[i] = ""

\* an invoice.paid event has been answered 'ignored' after the connectivity test
C6_Witness ==
    \E i \in Invocations :
        /\ Done(i)
        /\ context[i].body.type = "invoice.paid"
        /\ Responded(i, 200, "ignored", "")
        /\ calls[i] = <<"properties.getAll">>

-----------------------------------------------------------------------------
(* C7: a missing credential is a pre-flight failure.  An invocation whose   *)
(* joinDateKey is absent or empty has ended at once with 500 / error, has   *)
(* built no client, issued no CRM call, and has not touched the event.      *)

C7_MissingCredentialPreflight ==
    \A i \in Invocations :
        Started(i) /\ context[i].secrets.joinDateKey = ""
        => /\ Done(i)
           /\ Responded(i, 500, "error", "")
           /\ Response(i).body.message = "Missing required secret: joinDateKey"
           /\ ~hubspotClient[i]
           /\ calls[i] = <<>>
           /\ joinDate[i] = ""
           /\ contact[i] = <<>>

\* an invocation without a credential has been answered
C7_Witness ==
    \E i \in Invocations :
        /\ Done(i)
        /\ context[i].secrets.joinDateKey = ""
        /\ context[i].body.type = Sentinel
        /\ Len(responses[i]) = 1

-----------------------------------------------------------------------------
(* C8: an invocation whose event has an empty or missing                    *)
(* customer_details.email ends in an error outcome and has made no call to  *)
(* the CRM of any kind.                                                     *)

C8_MissingEmailNoCrmCall ==
    \A i \in Invocations :
        (/\ Done(i)
         /\ ~context[i].body.hasCustomerDetails \/ context[i].body.email = "")
        => /\ Responded(i, 500, "error", "")
           /\ calls[i] = <<>>

(* C8 as amended: such an invocation ends in an error outcome and makes no  *)
(* search and no update call; the only CRM call it makes is the             *)
(* connectivity test that main issues before it reads the event.            *)

C8_MissingEmailNoSearchNoUpdate ==
    \A i \in Invocations :
        (/\ Started(i)
         /\ ~context[i].body.hasCustomerDetails \/ context[i].body.email = "")
        => /\ pc[i] \in {"awaitConnectivity", "done"}
           /\ Count(calls[i], "contacts.search") = 0
           /\ Count(calls[i], "contacts.update") = 0
           /\ calls[i] \in {<<>>, <<"properties.getAll">>}
           /\ Done(i) => Responded(i, 500, "error", "")

\* an event with an empty email was rejected after the connectivity test passed
C8_Witness ==
    \E i \in Invocations :
        /\ Done(i)
        /\ failed[i] = ""
        /\ context[i].body.hasCustomerDetails
        /\ context[i].body.email = ""
        /\ Responded(i, 500, "error", "")
        /\ Response(i).body.message = "No customer email found in webhook data"

-----------------------------------------------------------------------------
(* C9: response mapping and error containment.  A finished invocation has   *)
(* sent exactly one response and let no exception out of main.  The         *)
(* response is 500 / error exactly when a step failed: no credential, a     *)
(* failed CRM call (connectivity, search, update), no customer_details or   *)
(* no email, a created that cannot be formatted, or no contact for the      *)
(* email.  Otherwise it is 200: 'ignored' for a non-sentinel type, and      *)
(* 'success' with action 'updated' or 'skipped' for the sentinel.           *)

StepFails(i) ==
    \/ context[i].secrets.joinDateKey = ""
    \/ failed[i] # ""
    \/ ~context[i].body.hasCustomerDetails
    \/ context[i].body.email = ""
    \/ /\ context[i].body.type = Sentinel
       /\ \/ context[i].body.created.tag # "number"
          \/ ContactFor(i) = {}

-----------------------------------------------------------------------------
(* C10: contact not found.  When the search of a processable event          *)
(* succeeds and the CRM holds no contact for the email, the invocation      *)
(* ends 500 / error with the not-found message carrying the email, having   *)
(* issued the connectivity test and one search and nothing else: no update, *)
(* no second search; no contact is resolved and the CRM holds the same      *)
(* contacts as before.                                                      *)

-----------------------------------------------------------------------------
(* C11: the check-then-write race.  When the update of an invocation is     *)
(* answered successfully while the contact already holds a join_date that   *)
(* another invocation wrote after this one's search saw it empty, the       *)
(* update is applied all the same: the stored join_date becomes this        *)
(* invocation's date (the last write wins) and the invocation answers       *)
(* 'updated'.  The witness is the interleaving itself: both searches saw an *)
(* empty join_date, both invocations answered 'updated' with different      *)
(* dates, and the store holds the date of the update applied last.          *)

C11_LastWriteWins ==
    [][\A i \in Invocations : \A id \in ContactIds :
          (/\ pc[i] = "awaitUpdate"
           /\ Steps(i)
           /\ failed'[i] = ""
           /\ EmailOf(id) = context[i].body.email
           /\ store[id] # "")
          => (/\ contact[i] = <<[id |-> id, properties |-> [join_date |-> ""]]>>
              /\ store' = [store EXCEPT ![id] = joinDate[i]]
              /\ pc'[i] = "done"
              /\ Len(responses'[i]) = 1
              /\ responses'[i][1].body.action = "updated"
              /\ responses'[i][1].body.data.joinDate = joinDate[i])]_vars

\* both invocations saw contact 101 empty and both answered 'updated'; the
\* update of invocation 1 was applied last
C11_Witness ==
    /\ Done(1) /\ Done(2)
    /\ contact[1] = <<[id |-> "101", properties |-> [join_date |-> ""]]>>
    /\ contact[2] = <<[id |-> "101", properties |-> [join_date |-> ""]]>>
    /\ Responded(1, 200, "success", "updated")
    /\ Responded(2, 200, "success", "updated")
    /\ Response(1).body.data.joinDate = "2025-07-20"
    /\ Response(2).body.data.joinDate = "2025-07-21"
    /\ store["101"] = "2025-07-20"

-----------------------------------------------------------------------------
(* C12: a failed update is safely retryable.  With invocations delivered    *)
(* one after the other, an invocation whose update call failed has ended    *)
(* 500 / error having issued that one update call and no other (no retry),  *)
(* and the contact's join_date is still empty as long as no invocation has  *)
(* answered 'updated' for it.  A later invocation with the same event on    *)
(* which no CRM call fails, no invocation in between having written the     *)
(* contact, issues the same calls, answers 'updated' with the same derived  *)
(* date, and that date is the one stored.                                   *)

UpdatedFor(k, id) ==
    /\ Done(k)
    /\ EmailOf(id) = context[k].body.email
    /\ Len(responses[k]) = 1
    /\ Response(k).body.action = "updated"

C12_FailedUpdateRetryable ==
    \A i \in Invocations : \A id \in ContactIds :
        (/\ Done(i)
         /\ failed[i] = "contacts.update"
         /\ EmailOf(id) = context[i].body.email)
        => /\ Responded(i, 500, "error", "")
           /\ calls[i] = <<"properties.getAll", "contacts.search", "contacts.update">>
           /\ (\A k \in Invocations : ~UpdatedFor(k, id)) => store[id] = ""
           /\ \A j \in Invocations :
                (/\ i < j
                 /\ Done(j)
                 /\ context[j] = context[i]
                 /\ failed[j] = ""
                 /\ \A k \in Invocations : i < k /\ k < j => ~UpdatedFor(k, id))
                => /\ Responded(j, 200, "success", "updated")
                   /\ calls[j] = calls[i]
                   /\ Response(j).body.data.joinDate = joinDate[i]
                   /\ store[id] = joinDate[i]

\* the update of invocation 1 failed and the redelivered event was applied
C12_Witness ==
    /\ Done(1) /\ Done(2)
    /\ failed[1] = "contacts.update"
    /\ Responded(1, 500, "error", "")
    /\ context[2] = context[1]
    /\ Responded(2, 200, "success", "updated")
    /\ store["101"] = "2025-07-21"

-----------------------------------------------------------------------------
(* C13: the time-zone policy of the README.  The join_date derived for an   *)
(* event is the calendar date of its timestamp in America/Chicago.          *)

\* seconds America/Chicago is behind UTC at instant ts: daylight time (5 h)
\* from 2025-03-09T08:00Z to 2025-11-02T07:00Z, standard time (6 h) in the
\* rest of the years the timestamps of the model fall in
ChicagoBehindUTC(ts) ==
    IF 1741507200 <= ts /\ ts < 1762066800 THEN 18000 ELSE 21600

ChicagoDate(ts) == ISODate(Day(ts - ChicagoBehindUTC(ts)))

C13_ChicagoCalendarDate ==
    \A i \in Invocations :
        joinDate[i] # "" => joinDate[i] = ChicagoDate(context[i].body.created.n)

-----------------------------------------------------------------------------
(* C14: the step order of an invocation.  The CRM calls of an invocation    *)
(* are a prefix of connectivity test, search, update.  A search is issued   *)
(* only once the date is derived (from a numeric created): a created that   *)
(* cannot be converted ends the invocation 500 / error with no search.  A   *)
(* contact is resolved only by an answered search, an update is issued      *)
(* only for a resolved contact whose join_date was empty, and an            *)
(* invocation answers 'skipped' or 'updated' only with a resolved contact;  *)
(* no invocation ever moves back to an earlier step.                        *)

StepRank(p) ==
    CASE p = "idle" -> 0
      [] p = "awaitConnectivity" -> 1
      [] p = "awaitSearch" -> 2
      [] p = "awaitUpdate" -> 3
      [] OTHER -> 4

StepOrder(i) ==
    /\ \E n \in 0..3 :
         calls[i] = SubSeq(<<"properties.getAll", "contacts.search", "contacts.update">>, 1, n)
    /\ Count(calls[i], "contacts.search") = 1
         => /\ context[i].body.created.tag = "number"
            /\ joinDate[i] # ""
    /\ Started(i) /\ context[i].body.created.tag # "number"
         => /\ Count(calls[i], "contacts.search") = 0
            /\ joinDate[i] = ""
            /\ contact[i] = <<>>
            /\ pc[i] \in {"awaitConnectivity", "done"}
            /\ Done(i) => Responded(i, 500, "error", "")
    /\ contact[i] # <<>>
         => /\ Count(calls[i], "contacts.search") = 1
            /\ pc[i] \in {"awaitUpdate", "done"}
    /\ Count(calls[i], "contacts.update") = 1
         => /\ Len(contact[i]) = 1
            /\ contact[i][1].properties.join_date = ""
    /\ pc[i] = "awaitSearch" => joinDate[i] # "" /\ contact[i] = <<>>
    /\ Done(i) /\ Len(responses[i]) = 1 /\ Response(i).body.action = "skipped"
         => /\ Len(contact[i]) = 1
            /\ Count(calls[i], "contacts.update") = 0
    /\ Done(i) /\ Len(responses[i]) = 1 /\ Response(i).body.action = "updated"
         => /\ Len(contact[i]) = 1
            /\ Count(calls[i], "contacts.update") = 1

C14_StepOrder ==
    [][\A i \in Invocations :
          /\ StepOrder(i)'
          /\ StepRank(pc'[i]) >= StepRank(pc[i])
          /\ Steps(i) /\ pc'[i] # "done" => StepRank(pc'[i]) = StepRank(pc[i]) + 1]_vars

\* an event without created failed after the connectivity test, before any
\* search, while another invocation went through every step
C14_Witness ==
    \E i, j \in Invocations :
        /\ Done(i)
        /\ context[i].body.created.tag = "undefined"
        /\ Response(i).body.message = "Date formatting failed: Invalid time value"
        /\ calls[i] = <<"properties.getAll">>
        /\ Done(j)
        /\ Responded(j, 200, "success", "updated")

-----------------------------------------------------------------------------
(* C15: the value written on 'updated'.  When the update of an invocation   *)
(* is answered successfully, the step changes the join_date of the contact  *)
(* its search returned (the contact of the event's email) and nothing else  *)
(* in the CRM, the stored join_date is the UTC calendar date of             *)
(* event.created, and the invocation answers 200 / success / updated with   *)
(* joinDate equal to the stored value, that contact's id, the event's       *)
(* email and the event's id.                                                *)

-----------------------------------------------------------------------------
(* C16: UTC date derivation.  For every probed timestamp, formatJoinDate    *)
(* returns the YYYY-MM-DD string of the UTC calendar date the timestamp     *)
(* falls on: the date changes exactly when a whole 86400-second day since   *)
(* the epoch is completed, so 00:00:00, 02:40:00 and 23:59:59 of one UTC    *)
(* day give one date; for 1752979200 it returns "2025-07-20".               *)

CalendarString(p) == Pad4(p.year) \o "-" \o Pad2(p.month) \o "-" \o Pad2(p.date)

C16_UTCCalendarDate ==
    probe.out # ""
    => /\ probe.out = CalendarString(probe)
       /\ probe.ts = 1752979200 => probe.out = "2025-07-20"
       /\ probe.ts = 1709164800 + 86399 => probe.out = "2024-02-29"
       /\ probe.ts = 1767225600 => probe.out = "2026-01-01"

\* the timestamp of the scenario has been formatted
C16_Witness == probe.ts = 1752979200 /\ probe.out = "2025-07-20"

-----------------------------------------------------------------------------
(* C17: the two search-response shapes are handled alike.  For every list   *)
(* of records, handed back as `results` or as `body.results`,               *)
(* findContactByEmail yields the first record, or null for the empty list.  *)
(* So whenever a search is answered, in whichever shape, the invocation     *)
(* resolves the contact the CRM holds for the email with its stored         *)
(* join_date, or none if there is none; and a search that fails ends the    *)
(* invocation 500 / error with 'Contact search failed: <cause>' after that  *)
(* one search call.                                                         *)

RecordsOf(crm) == {[id |-> id, properties |-> [join_date |-> crm[id]]] : id \in ContactIds}

ResultLists(crm) ==
    {<<>>} \cup {<<r>> : r \in RecordsOf(crm)}
           \cup {<<r, q>> : r \in RecordsOf(crm), q \in RecordsOf(crm)}

ShapesAlike(crm) ==
    \A L \in ResultLists(crm) : \A shape \in {"flat", "wrapped"} :
        FirstOrNull(ResultsOf(SearchResponse(shape, L)))
            = IF L = <<>> THEN <<>> ELSE <<L[1]>>

C17_UniformShapes ==
    [][\A i \in Invocations :
          pc[i] = "awaitSearch" /\ Steps(i)
          => /\ ShapesAlike(store)
             /\ Count(calls'[i], "contacts.search") = 1
             /\ IF failed'[i] = "contacts.search"
                THEN /\ pc'[i] = "done"
                     /\ contact'[i] = <<>>
                     /\ responses'[i] =
                          <<[statusCode |-> 500,
                             body |-> [status |-> "error", action |-> "",
                                       message |-> "Contact search failed: socket hang up",
                                       data |-> NoData]]>>
                ELSE IF ContactFor(i) = {}
                THEN contact'[i] = <<>> /\ pc'[i] = "done"
                ELSE \E id \in ContactFor(i) :
                        contact'[i] = <<[id |-> id, properties |-> [join_date |-> store[id]]]>>]_vars

\* one search resolved its contact, another failed and was answered
C17_Witness ==
    \E i, j \in Invocations :
        /\ Len(contact[i]) = 1
        /\ contact[i][1].id = "101"
        /\ Done(j)
        /\ failed[j] = "contacts.search"
        /\ calls[j] = <<"properties.getAll", "contacts.search">>
        /\ Response(j).body.message = "Contact search failed: socket hang up"

-----------------------------------------------------------------------------
(* C18: exactly one response per invocation.  Provided every awaited CRM    *)
(* call returns or fails, every invocation of main that has started         *)
(* eventually ends having called sendResponse exactly once; it never holds  *)
(* more than one response, it never ends with none, and no exception        *)
(* escapes main.                                                            *)

C18_ExactlyOneResponse ==
    \A i \in Invocations :
        /\ [](Len(responses[i]) <= 1)
        /\ [](pc[i] = "done" => Len(responses[i]) = 1 /\ ~escaped[i])
        /\ [](pc[i] # "done" => Len(responses[i]) = 0)
        /\ (pc[i] # "idle") ~> (pc[i] = "done" /\ Len(responses[i]) = 1)

\* one invocation ended ignored, another after a failed update, each with
\* its one response
C18_Witness ==
    \E i, j \in Invocations :
        /\ pc[i] = "done" /\ pc[j] = "done"
        /\ Len(responses[i]) = 1 /\ Len(responses[j]) = 1
        /\ responses[i][1].body.status = "ignored"
        /\ failed[j] = "contacts.update"
        /\ responses[j][1].statusCode = 500

-----------------------------------------------------------------------------
(* C19: the connectivity pre-flight gates all processing.  The first CRM    *)
(* call of every invocation is the connectivity test, properties.getAll;    *)
(* while it is unanswered nothing is derived from the event and nothing is  *)
(* sent; an invocation whose test failed is over, answered 500 / error with *)
(* 'HubSpot authentication failed: <cause>' whatever its event holds, with  *)
(* no join date derived, no contact resolved, and no search or update call. *)

C19_ConnectivityGate ==
    \A i \in Invocations :
        /\ calls[i] # <<>> => calls[i][1] = "properties.getAll"
        /\ pc[i] = "awaitConnectivity"
           => /\ calls[i] = <<"properties.getAll">>
              /\ joinDate[i] = ""
              /\ contact[i] = <<>>
              /\ responses[i] = <<>>
        /\ failed[i] = "properties.getAll"
           => /\ pc[i] = "done"
              /\ calls[i] = <<"properties.getAll">>
              /\ joinDate[i] = ""
              /\ contact[i] = <<>>
              /\ responses[i] =
                   <<[statusCode |-> 500,
                      body |-> [status |-> "error", action |-> "",
                                message |-> "HubSpot authentication failed: socket hang up",
                                data |-> NoData]]>>

\* the test failed for an event of another type and for a checkout event of
\* a known customer alike
C19_Witness ==
    \E i, j \in Invocations :
        /\ failed[i] = "properties.getAll" /\ failed[j] = "properties.getAll"
        /\ context[i].body.type = "invoice.paid"
        /\ context[j].body.type = "checkout.session.completed"
        /\ context[j].body.email = "a@example.com"
        /\ responses[i] = responses[j]
        /\ Len(responses[i]) = 1

-----------------------------------------------------------------------------
(* C20: first writer wins under sequential delivery.  The invocations are   *)
(* delivered one after the other, any of their CRM calls may fail.          *)

\* the calendar date of the two event timestamps the invocations carry
DerivedDateOf(created) ==
    IF created.n = 1752979200 THEN "2025-07-20" ELSE "2025-07-21"

\* invocation j carries a processable event for contact id and started after
\* invocation i answered 'updated' for that contact
FollowsUpdate(i, j, id) ==
    /\ i < j
    /\ UpdatedFor(i, id)
    /\ pc[j] = "done"
    /\ Processable(j)
    /\ EmailOf(id) = context[j].body.email

(* C20 as stated: every invocation for the contact that follows the one     *)
(* that answered 'updated' answers 'skipped', a failed search being allowed *)
(* (the connectivity test is taken to succeed).                             *)
C20_EveryLaterSkipped ==
    \A i, j \in Invocations : \A id \in ContactIds :
        FollowsUpdate(i, j, id) /\ failed[j] # "properties.getAll"
        => Responded(j, 200, "success", "skipped")

(* C20: for every contact at most one invocation answers 'updated'; from    *)
(* that answer on the stored join_date is the calendar date of that event's *)
(* timestamp; every later invocation for the contact with a processable     *)
(* event answers 'skipped' with that date if none of its CRM calls fails    *)
(* and 500 / error if one does, and issues no update call; and no step      *)
(* stores an empty join_date or changes a stored non-empty one.             *)
C20_FirstWriterWins ==
    /\ [](\A i, j \in Invocations : \A id \in ContactIds :
            /\ UpdatedFor(i, id) /\ UpdatedFor(j, id) => i = j
            /\ UpdatedFor(i, id)
               => /\ store[id] = DerivedDateOf(context[i].body.created)
                  /\ responses[i][1].body.data.joinDate = store[id]
            /\ FollowsUpdate(i, j, id)
               => /\ Count(calls[j], "contacts.update") = 0
                  /\ IF failed[j] = ""
                     THEN /\ Responded(j, 200, "success", "skipped")
                          /\ responses[j][1].body.data.existingJoinDate = store[id]
                     ELSE Responded(j, 500, "error", ""))
    /\ [][\A id \in ContactIds :
            /\ store[id] # "" => store'[id] = store[id]
            /\ store'[id] # store[id] => store'[id] # ""]_vars

\* the later event was delivered first and applied; the earlier event,
\* delivered second, was skipped and the later date stays
C20_Witness ==
    /\ pc[1] = "done" /\ pc[2] = "done"
    /\ context[1].body.email = "a@example.com"
    /\ context[2].body.email = "a@example.com"
    /\ context[1].body.created.n = 1753056000
    /\ context[2].body.created.n = 1752979200
    /\ Responded(1, 200, "success", "updated")
    /\ Responded(2, 200, "success", "skipped")
    /\ store["101"] = "2025-07-21"

====
